---- MODULE Spec2Model ----
(***************************************************************************)
(* PLUME nullifier signatures (rust-arkworks/src/lib.rs): key generation,  *)
(* signing with the V1 and V2 challenge transcripts, and the non-zk        *)
(* verification.                                                           *)
(*                                                                         *)
(* The group is a short Weierstrass curve of prime order over a small      *)
(* prime field, y^2 = x^3 + x + 1 over F_7 (5 points).  A point is named   *)
(* by its index k, the point k*G for the base point G = (0,1); index 0 is  *)
(* the point at infinity.  The two hash functions the code calls           *)
(* (hash_to_curve and SHA-256) are unknown deterministic functions: each   *)
(* is a table filled on demand, an unseen input getting any value of the   *)
(* function's range and a seen input the value it got before.              *)
(* A byte is two digits of a three-letter alphabet (nine values), a SHA-256  *)
(* digest is one byte, and a point's compressed encoding is two bytes.     *)
(***************************************************************************)
EXTENDS Integers, Sequences, FiniteSets, TLC

\* ------------------------------------------------------------------ sizes

\* Order of the scalar field P::ScalarField (the group order, a prime).
ScalarFieldOrder == 5

\* Number of digits of the hex alphabet in this model; a byte is two digits.
DigitBase == 3

\* Number of values of a u8 (a byte is 0 .. ByteBase-1).
ByteBase == DigitBase * DigitBase

\* Number of distinct messages offered to sign and verify.
NumMessages == 2

Scalar == 0 .. (ScalarFieldOrder - 1)
Point == 0 .. (ScalarFieldOrder - 1)
Byte == 0 .. (ByteBase - 1)
Messages == {<<i>> : i \in 1 .. NumMessages}
PlumeVersion == {"V1", "V2"}

\* Affine coordinates of the point k*G, k = 1 .. order-1.
CurveCoord == <<
    <<0, 1>>, <<2, 5>>, <<2, 2>>, <<0, 6>> >>

\* ------------------------------------------------------- group and field

\* AffineCurve::mul / ProjectiveCurve arithmetic on indices.
PointMul(p, k) == (p * k) % ScalarFieldOrder
\* The difference taken as a sum.
PointSub_added(p, q) == (p + q) % ScalarFieldOrder

PointSub(p, q) == (p - q + ScalarFieldOrder) % ScalarFieldOrder

RECURSIVE FoldBe(_, _)
\* Big-endian value of a byte string, reduced modulo the order at each step.
FoldBe(bytes, acc) ==
    IF bytes = <<>> THEN acc
    ELSE FoldBe(Tail(bytes), (acc * ByteBase + Head(bytes)) % ScalarFieldOrder)

\* P::ScalarField::from_be_bytes_mod_order
from_be_bytes_mod_order(bytes) == FoldBe(bytes, 0)

RECURSIVE to_bytes_le(_)
\* BigUint::to_bytes_le: the little-endian digits of a natural number.
to_bytes_le(v) ==
    IF v < ByteBase THEN <<v>>
    ELSE <<v % ByteBase>> \o to_bytes_le(v \div ByteBase)

RECURSIVE Reverse(_)
Reverse(s) == IF s = <<>> THEN <<>> ELSE Reverse(Tail(s)) \o <<Head(s)>>

\* PrimeField::from_le_bytes_mod_order
from_le_bytes_mod_order(bytes) == from_be_bytes_mod_order(Reverse(bytes))

\* The conversion back keeps the low byte and does not reduce.
ScalarFrom_truncating(v) == Head(to_bytes_le(v))

\* P::ScalarField::from(BigUint)
ScalarFrom(v) == from_le_bytes_mod_order(to_bytes_le(v))

\* --------------------------------------------------------------- results

Ok(v) == [ok |-> TRUE, val |-> v, err |-> "none"]
Err(dflt, e) == [ok |-> FALSE, val |-> dflt, err |-> e]

\* Two values of the error type.
HashToCurveError == {"HashToCurveError(a)", "HashToCurveError(b)"}

NoSignature ==
    [hashed_to_curve_r |-> 0, r_point |-> 0, s |-> 0, c |-> 0, nullifier |-> 0]

\* ---------------------------------------------------------------- lib.rs

\* The two digits of a byte, high digit first.
HexOfByte(b) == <<b \div DigitBase, b % DigitBase>>

\* Sec1EncodePoint::to_encoded_point(true): the digits of the fixed-length
\* compressed encoding, a tag byte (0 for the point at infinity, else 2 or
\* 3 by the parity of y) and then x.
to_encoded_point(point) ==
    IF point = 0 THEN HexOfByte(0) \o HexOfByte(0)
    ELSE HexOfByte(2 + (CurveCoord[point][2] % 2))
            \o HexOfByte(CurveCoord[point][1])

RECURSIVE hex_decode(_)
\* hex::decode: each pair of digits is a byte.
hex_decode(digits) ==
    IF digits = <<>> THEN <<>>
    ELSE <<digits[1] * DigitBase + digits[2]>> \o hex_decode(Tail(Tail(digits)))

\* The encoding of every point, computed once.
EncodedPoints == [point \in Point |-> hex_decode(to_encoded_point(point))]

affine_to_bytes(point) == EncodedPoints[point]

\* hash_to_curve(message, pk) under the table H.
hash_to_curve(H, message, pk) == H[<<message, pk>>]

\* The collaborator's error reported as another one.
compute_h_reinterpreting(H, pk, message) ==
    LET h == hash_to_curve(H, message, pk)
    IN  IF h.ok THEN h ELSE Err(0, "HashToCurveError(b)")

compute_h(H, pk, message) == hash_to_curve(H, message, pk)

\* The first two encodings in the other order: pk, then g.
compute_c_v1_preimage_reordered(g_point, pk, hashed_to_curve, nullifier, r_point, hashed_to_curve_r) ==
    affine_to_bytes(pk) \o affine_to_bytes(g_point)
        \o affine_to_bytes(hashed_to_curve) \o affine_to_bytes(nullifier)
        \o affine_to_bytes(r_point) \o affine_to_bytes(hashed_to_curve_r)

compute_c_v1_preimage(g_point, pk, hashed_to_curve, nullifier, r_point, hashed_to_curve_r) ==
    affine_to_bytes(g_point) \o affine_to_bytes(pk)
        \o affine_to_bytes(hashed_to_curve) \o affine_to_bytes(nullifier)
        \o affine_to_bytes(r_point) \o affine_to_bytes(hashed_to_curve_r)

compute_c_v2_preimage(nullifier, r_point, hashed_to_curve_r) ==
    affine_to_bytes(nullifier) \o affine_to_bytes(r_point)
        \o affine_to_bytes(hashed_to_curve_r)

\* Sha256::digest under the table S.
Sha256_digest(S, bytes) == S[bytes]

compute_c_v1(S, g_point, pk, hashed_to_curve, nullifier, r_point, hashed_to_curve_r) ==
    Sha256_digest(S, compute_c_v1_preimage(g_point, pk, hashed_to_curve,
                                           nullifier, r_point, hashed_to_curve_r))

compute_c_v2(S, nullifier, r_point, hashed_to_curve_r) ==
    Sha256_digest(S, compute_c_v2_preimage(nullifier, r_point, hashed_to_curve_r))

\* keygen: pk = g * sk for the drawn secret key.
keygen(pp, secret_key) == <<PointMul(pp.g_point, secret_key), secret_key>>

\* z and the nullifier taken the other way round: nul = h^r, z = h^sk.
sign_points_swapped(pp, keypair, hashed_to_curve, r_scalar) ==
    [r_point |-> PointMul(pp.g_point, r_scalar),
     hashed_to_curve_r |-> PointMul(hashed_to_curve, keypair[2]),
     nullifier |-> PointMul(hashed_to_curve, r_scalar)]

\* The points sign_with_r derives (lines 122-132): g^r, z = h^r, nul = h^sk.
sign_points(pp, keypair, hashed_to_curve, r_scalar) ==
    [r_point |-> PointMul(pp.g_point, r_scalar),
     hashed_to_curve_r |-> PointMul(hashed_to_curve, r_scalar),
     nullifier |-> PointMul(hashed_to_curve, keypair[2])]

\* The bytes sign_with_r hashes (lines 135-145): what it asks SHA-256.
sign_preimage(pp, keypair, hashed_to_curve, r_scalar, version) ==
    LET pts == sign_points(pp, keypair, hashed_to_curve, r_scalar)
    IN  IF version = "V1"
        THEN compute_c_v1_preimage(pp.g_point, keypair[1], hashed_to_curve,
                                   pts.nullifier, pts.r_point, pts.hashed_to_curve_r)
        ELSE compute_c_v2_preimage(pts.nullifier, pts.r_point, pts.hashed_to_curve_r)

sign_with_r(H, S, pp, keypair, message, r_scalar, version) ==
    LET g_point == pp.g_point
        h == compute_h(H, keypair[1], message)
    IN  IF ~h.ok THEN Err(NoSignature, h.err)
        ELSE
        LET hashed_to_curve == h.val
            pts == sign_points(pp, keypair, hashed_to_curve, r_scalar)
            c == IF version = "V1"
                 THEN compute_c_v1(S, g_point, keypair[1], hashed_to_curve,
                                   pts.nullifier, pts.r_point, pts.hashed_to_curve_r)
                 ELSE compute_c_v2(S, pts.nullifier, pts.r_point, pts.hashed_to_curve_r)
            c_scalar == from_be_bytes_mod_order(c)
            \* into_repr().into(): the scalars as BigUint, the product and
            \* the sum taken on the integers, not reduced.
            sk_c == keypair[2] * c_scalar
            s == r_scalar + sk_c
            s_scalar == ScalarFrom(s)
        IN  Ok([hashed_to_curve_r |-> pts.hashed_to_curve_r,
                s |-> s_scalar,
                r_point |-> pts.r_point,
                c |-> c_scalar,
                nullifier |-> pts.nullifier])

\* The bytes verify_non_zk hashes (lines 191-203).
verify_preimage(sig, pp, pk, hashed_to_curve, version) ==
    IF version = "V1"
    THEN compute_c_v1_preimage(pp.g_point, pk, hashed_to_curve,
                               sig.nullifier, sig.r_point, sig.hashed_to_curve_r)
    ELSE compute_c_v2_preimage(sig.nullifier, sig.r_point, sig.hashed_to_curve_r)

\* The recomputed challenge c' of verify_non_zk (lines 191-204).
verify_c_scalar(S, sig, pp, pk, hashed_to_curve, version) ==
    from_be_bytes_mod_order(
        IF version = "V1"
        THEN compute_c_v1(S, pp.g_point, pk, hashed_to_curve,
                          sig.nullifier, sig.r_point, sig.hashed_to_curve_r)
        ELSE compute_c_v2(S, sig.nullifier, sig.r_point, sig.hashed_to_curve_r))

\* The first equation not checked.
check_r_point_skipped(sig, pp, pk) == TRUE

\* The first equation without its pk^{-c} factor.
check_r_point_without_pk(sig, pp, pk) ==
    sig.r_point = PointMul(pp.g_point, sig.s)

\* g^s * pk^{-c} == g^r (lines 207-211).
check_r_point(sig, pp, pk) ==
    LET g_s == PointMul(pp.g_point, sig.s)
        pk_c == PointMul(pk, sig.c)
        g_s_pk_c == PointSub(g_s, pk_c)
    IN  sig.r_point = g_s_pk_c

\* The second equation not checked.
check_hashed_to_curve_r_skipped(sig, hashed_to_curve) == TRUE

\* h^s * nul^{-c} == z (lines 216-220).
check_hashed_to_curve_r(sig, hashed_to_curve) ==
    LET h_s == PointMul(hashed_to_curve, sig.s)
        nul_c == PointMul(sig.nullifier, sig.c)
        h_s_nul_c == PointSub(h_s, nul_c)
    IN  sig.hashed_to_curve_r = h_s_nul_c

\* The challenge comparison not made.
check_c_skipped(sig, c_scalar) == TRUE

\* c' == c (line 225).
check_c(sig, c_scalar) == c_scalar = sig.c

\* A failed check reported as an error, and the challenge not compared.
verify_non_zk_raising(H, S, sig, pp, pk, message, version) ==
    LET h == compute_h(H, pk, message)
    IN  IF ~h.ok THEN Err(FALSE, h.err)
        ELSE IF ~check_r_point(sig, pp, pk) THEN Err(FALSE, "HashToCurveError(b)")
        ELSE IF ~check_hashed_to_curve_r(sig, h.val) THEN Ok(FALSE)
        ELSE Ok(TRUE)

verify_non_zk(H, S, sig, pp, pk, message, version) ==
    LET h == compute_h(H, pk, message)
    IN  IF ~h.ok THEN Err(FALSE, h.err)
        ELSE
        LET hashed_to_curve == h.val
            c_scalar == verify_c_scalar(S, sig, pp, pk, hashed_to_curve, version)
        IN  IF ~check_r_point(sig, pp, pk) THEN Ok(FALSE)
            ELSE IF ~check_hashed_to_curve_r(sig, hashed_to_curve) THEN Ok(FALSE)
            ELSE IF ~check_c(sig, c_scalar) THEN Ok(FALSE)
            ELSE Ok(TRUE)

\* ----------------------------------------------------------------- state

VARIABLES
    pp,         \* Parameters: [g_point]
    keypair,    \* <<>> before the key pair exists, then <<pk, sk>>
    htc,        \* hash_to_curve as seen so far: <<message, pk>> -> Result
    sha,        \* SHA-256 as seen so far: bytes -> digest
    signed,     \* the sign calls made, each with its inputs and result
    verified    \* <<>> or <<the verify_non_zk call: its inputs and result>>

vars == <<pp, keypair, htc, sha, signed, verified>>

EmptyTable == [x \in {} |-> 0]

\* The values hash_to_curve may return, and the digests of SHA-256.
HtcRange == {Ok(p) : p \in Point} \cup {Err(0, e) : e \in HashToCurveError}
Digests == {<<b>> : b \in Byte}

\* The tables that agree with `table` and also answer `query`.
Answering(table, query, range) ==
    IF query \in DOMAIN table THEN {table}
    ELSE {table @@ (query :> v) : v \in range}

Init ==
    /\ pp = [g_point |-> 1]
    /\ keypair = <<>>
    /\ htc = EmptyTable
    /\ sha = EmptyTable
    /\ signed = <<>>
    /\ verified = <<>>

\* keygen with the secret key drawn from the rng.
Keygen ==
    /\ keypair = <<>>
    /\ \E secret_key \in Scalar : keypair' = keygen(pp, secret_key)
    /\ UNCHANGED <<pp, htc, sha, signed, verified>>

\* The caller of sign_with_r builds the pair itself: any point, any scalar.
ImportKeypair ==
    /\ keypair = <<>>
    /\ \E pk \in Point, sk \in Scalar : keypair' = <<pk, sk>>
    /\ UNCHANGED <<pp, htc, sha, signed, verified>>

\* sign: r drawn from the rng, then sign_with_r.
SignCall(message, version) ==
    \E r_scalar \in Scalar :
    \E H \in Answering(htc, <<message, keypair[1]>>, HtcRange) :
      LET h == compute_h(H, keypair[1], message)
          Q == sign_preimage(pp, keypair, h.val, r_scalar, version)
      IN  \E S \in (IF h.ok THEN Answering(sha, Q, Digests) ELSE {sha}) :
            /\ htc' = H
            /\ sha' = S
            /\ signed' = Append(signed,
                    [keypair |-> keypair, message |-> message,
                     r_scalar |-> r_scalar, version |-> version,
                     result |-> sign_with_r(H, S, pp, keypair, message,
                                            r_scalar, version)])

Sign ==
    /\ keypair # <<>>
    /\ signed = <<>>
    /\ \E message \in Messages, version \in PlumeVersion :
         SignCall(message, version)
    /\ UNCHANGED <<pp, keypair, verified>>

\* The same key pair signs the same message once more.
SignAgain ==
    /\ Len(signed) = 1
    /\ \E version \in PlumeVersion : SignCall(signed[1].message, version)
    /\ UNCHANGED <<pp, keypair, verified>>

\* verify_non_zk on (sig, pk, message, version).
VerifyCall(sig, pk, message, version) ==
    /\ verified = <<>>
    /\ \E H \in Answering(htc, <<message, pk>>, HtcRange) :
         LET h == compute_h(H, pk, message)
             Q == verify_preimage(sig, pp, pk, h.val, version)
         IN  \E S \in (IF h.ok THEN Answering(sha, Q, Digests) ELSE {sha}) :
               /\ htc' = H
               /\ sha' = S
               /\ verified' = <<[sig |-> sig, pk |-> pk, message |-> message,
                                 version |-> version,
                                 c_scalar |-> IF h.ok
                                     THEN verify_c_scalar(S, sig, pp, pk,
                                                          h.val, version)
                                     ELSE 0,
                                 result |-> verify_non_zk(H, S, sig, pp, pk,
                                                          message, version)]>>
    /\ UNCHANGED <<pp, keypair, signed>>

HasSignature == Len(signed) = 1 /\ signed[1].result.ok

\* The verifier is given what the signer used.
Verify ==
    /\ HasSignature
    /\ VerifyCall(signed[1].result.val, signed[1].keypair[1],
                  signed[1].message, signed[1].version)

\* The verifier is told the other version.
VerifyOtherVersion ==
    /\ HasSignature
    /\ \E version \in PlumeVersion \ {signed[1].version} :
         VerifyCall(signed[1].result.val, signed[1].keypair[1],
                    signed[1].message, version)

\* The verifier is given another message.
VerifyOtherMessage ==
    /\ HasSignature
    /\ \E message \in Messages \ {signed[1].message} :
         VerifyCall(signed[1].result.val, signed[1].keypair[1],
                    message, signed[1].version)

\* The verifier is given another public key.
VerifyOtherKey ==
    /\ HasSignature
    /\ \E pk \in Point \ {signed[1].keypair[1]} :
         VerifyCall(signed[1].result.val, pk,
                    signed[1].message, signed[1].version)

SignatureFields == {"hashed_to_curve_r", "r_point", "s", "c", "nullifier"}

\* The signature with one field replaced by another value of its type.
Tampered(sig) ==
    {[sig EXCEPT ![f] = v] : f \in SignatureFields, v \in Scalar} \ {sig}

\* The verifier is given the signature with one field changed.
VerifyTampered ==
    /\ HasSignature
    /\ \E sig \in Tampered(signed[1].result.val) :
         VerifyCall(sig, signed[1].keypair[1],
                    signed[1].message, signed[1].version)

\* Signatures made up by the caller, of any points and scalars.
Forged ==
    {[hashed_to_curve_r |-> a, r_point |-> a, s |-> c, c |-> c, nullifier |-> b] :
        a \in Point, b \in Point, c \in Scalar}

\* Signing failed; the verifier is given a made-up signature.
VerifyForged ==
    /\ Len(signed) = 1 /\ ~signed[1].result.ok
    /\ \E sig \in Forged :
         VerifyCall(sig, signed[1].keypair[1],
                    signed[1].message, signed[1].version)

Next ==
    \/ Keygen
    \/ Sign
    \/ Verify
    \/ VerifyOtherVersion
    \/ VerifyOtherMessage
    \/ VerifyOtherKey
    \/ VerifyForged

Spec == Init /\ [][Next]_vars

\* A signature verified with one of its fields changed.
NextTamper == Keygen \/ Sign \/ VerifyTampered

SpecTamper == Init /\ [][NextTamper]_vars

\* Two signing calls of one key pair on one message.
NextTwice == Keygen \/ Sign \/ SignAgain

SpecTwice == Init /\ [][NextTwice]_vars

\* A key pair of the caller's making, signed with and verified.
NextAnyKey == ImportKeypair \/ Sign \/ Verify

SpecAnyKey == Init /\ [][NextAnyKey]_vars

\* ---------------------------------------------------------------- claims

\* The six-point and the three-point transcripts as the specification
\* writes them, and the challenge SHA-256 gives for a transcript.
TranscriptV1(g, pk, h, nul, gr, z) ==
    affine_to_bytes(g) \o affine_to_bytes(pk) \o affine_to_bytes(h)
        \o affine_to_bytes(nul) \o affine_to_bytes(gr) \o affine_to_bytes(z)

TranscriptV2(nul, gr, z) ==
    affine_to_bytes(nul) \o affine_to_bytes(gr) \o affine_to_bytes(z)

Transcript(version, g, pk, h, nul, gr, z) ==
    IF version = "V1" THEN TranscriptV1(g, pk, h, nul, gr, z)
    ELSE TranscriptV2(nul, gr, z)

Hashed(bytes) == bytes \in DOMAIN sha

Challenge(bytes) == from_be_bytes_mod_order(sha[bytes])

ModOrder(v) == v % ScalarFieldOrder

ValidKeypair(kp) == kp[1] = ModOrder(pp.g_point * kp[2])

\* What hash_to_curve answered on the inputs of a call.
HtcOf(call) == htc[<<call.message, call.pk>>]
HtcOfSign(call) == htc[<<call.message, call.keypair[1]>>]

\* A signature was made under a valid key pair and verify_non_zk has run.
Verified ==
    /\ verified # <<>>
    /\ HasSignature
    /\ ValidKeypair(signed[1].keypair)

SameSignature == verified[1].sig = signed[1].result.val
SameKey == verified[1].pk = signed[1].keypair[1]
SameMessage == verified[1].message = signed[1].message
SameVersion == verified[1].version = signed[1].version

\* The three checks of verification, written out on a call's values.
Equation1(call) ==
    ModOrder(pp.g_point * call.sig.s)
        = ModOrder(call.sig.r_point + call.pk * call.sig.c)
Equation2(call) ==
    ModOrder(HtcOf(call).val * call.sig.s)
        = ModOrder(call.sig.hashed_to_curve_r + call.sig.nullifier * call.sig.c)
ChallengeMatches(call) == call.c_scalar = call.sig.c

\* C1: completeness. A signature made by sign under a valid key pair, given
\* to verify_non_zk with the same pk, message and version, is accepted with
\* Ok(true); it satisfies both group equations and its c is the challenge of
\* the version's transcript.
C1_Completeness ==
    (Verified /\ SameSignature /\ SameKey /\ SameMessage /\ SameVersion)
        => /\ verified[1].result = Ok(TRUE)
           /\ Equation1(verified[1])
           /\ Equation2(verified[1])
           /\ ChallengeMatches(verified[1])

C1_Witness ==
    /\ Verified /\ SameSignature /\ SameKey /\ SameMessage /\ SameVersion
    /\ verified[1].version = "V1"
    /\ verified[1].result = Ok(TRUE)
    /\ signed[1].keypair[2] > 1
    /\ signed[1].r_scalar > 1
    /\ signed[1].result.val.c > 1
    /\ signed[1].result.val.nullifier # 0

\* Multiplication and addition in the scalar field.
FieldMul(a, b) == (a * b) % ScalarFieldOrder
FieldAdd(a, b) == (a + b) % ScalarFieldOrder

\* C8: the response scalar. The s of a signature is r + sk*c in the scalar
\* field, c being the signature's challenge.
C8_ResponseScalar ==
    \A i \in 1 .. Len(signed) :
        signed[i].result.ok =>
            signed[i].result.val.s
                = FieldAdd(signed[i].r_scalar,
                           FieldMul(signed[i].keypair[2], signed[i].result.val.c))

\* The integer r + sk*c takes two bytes, and its low byte is not s.
C8_Witness ==
    /\ HasSignature
    /\ signed[1].r_scalar + signed[1].keypair[2] * signed[1].result.val.c
           >= ByteBase
    /\ signed[1].result.val.s
           # (signed[1].r_scalar
                + signed[1].keypair[2] * signed[1].result.val.c) % ByteBase

\* C2: nullifier determinism. Two signing calls of one key pair on one
\* message, whatever their nonces and versions, give the same nullifier,
\* and it is h*sk for h = hash_to_curve(message, pk).
C2_NullifierDeterminism ==
    \A i \in 1 .. Len(signed), j \in 1 .. Len(signed) :
        (/\ signed[i].result.ok
         /\ signed[j].result.ok
         /\ signed[i].keypair = signed[j].keypair
         /\ signed[i].message = signed[j].message)
        => /\ signed[i].result.val.nullifier = signed[j].result.val.nullifier
           /\ signed[i].result.val.nullifier
                = ModOrder(HtcOfSign(signed[i]).val * signed[i].keypair[2])

\* Two signatures of one message that differ in r, r_point, s and c.
C2_Witness ==
    /\ Len(signed) = 2
    /\ signed[1].result.ok /\ signed[2].result.ok
    /\ signed[1].r_scalar # signed[2].r_scalar
    /\ signed[1].result.val.r_point # signed[2].result.val.r_point
    /\ signed[1].result.val.s # signed[2].result.val.s
    /\ signed[1].result.val.c # signed[2].result.val.c
    /\ signed[1].result.val.nullifier # 0
    /\ signed[1].result.val.nullifier = signed[2].result.val.nullifier

\* The signing call is an ordinary one: sk and r are not 0 and h is not the
\* point at infinity.
Ordinary ==
    /\ signed[1].keypair[2] # 0
    /\ signed[1].r_scalar # 0
    /\ HtcOfSign(signed[1]).val # 0

\* C3 as the specification states it, for an ordinary signing call with
\* c # 0: a signature verified under the other version is rejected with
\* Ok(false).
C3_Original ==
    (/\ Verified /\ SameSignature /\ SameKey /\ SameMessage /\ ~SameVersion
     /\ Ordinary
     /\ signed[1].result.val.c # 0)
        => verified[1].result = Ok(FALSE)

\* C3 amended: a valid signature verified under the other version passes
\* both group equations, so the result is Ok(false) exactly when the
\* challenge of the other version's transcript differs from the signature's
\* c, and Ok(true) when the two coincide.
C3_VersionMismatch ==
    (Verified /\ SameSignature /\ SameKey /\ SameMessage /\ ~SameVersion)
        => LET sg == signed[1]
               sig == sg.result.val
               other == Transcript(verified[1].version, pp.g_point,
                                   sg.keypair[1], HtcOfSign(sg).val,
                                   sig.nullifier, sig.r_point,
                                   sig.hashed_to_curve_r)
           IN  /\ Hashed(other)
               /\ verified[1].result = Ok(Challenge(other) = sig.c)

C3_Witness ==
    /\ Verified /\ SameSignature /\ SameKey /\ SameMessage
    /\ signed[1].version = "V1"
    /\ verified[1].version = "V2"
    /\ signed[1].result.val.nullifier # 0
    /\ verified[1].result = Ok(FALSE)

\* C4 as the specification states it, for an ordinary signing call under V2
\* with c # 0 and hash_to_curve giving the other message, or the other key,
\* a point h' that is neither h nor the point at infinity: verification
\* returns Ok(false).
C4_Original ==
    (/\ Verified /\ SameSignature /\ SameVersion /\ (SameKey # SameMessage)
     /\ Ordinary
     /\ signed[1].version = "V2"
     /\ signed[1].result.val.c # 0
     /\ HtcOf(verified[1]).ok
     /\ HtcOf(verified[1]).val \notin {0, HtcOfSign(signed[1]).val})
        => verified[1].result = Ok(FALSE)

\* C4 amended. With another message m' or another key pk', verify_non_zk
\* returns hash_to_curve's error when it fails on the new pair; else, with
\* h' the new hash-to-curve point and c' the recomputed challenge: for
\* another message, Ok(false) unless (h' = h or s = 0) and c' = c; for
\* another key, Ok(false) unless c = 0, (h' = h or r = 0) and c' = 0.
C4_WrongMessageOrKey ==
    (Verified /\ SameSignature /\ SameVersion /\ (SameKey # SameMessage))
        => LET sg == signed[1]
               sig == sg.result.val
               h == HtcOfSign(sg).val
               hv == HtcOf(verified[1])
               cv == verified[1].c_scalar
           IN  IF ~hv.ok
               THEN verified[1].result = Err(FALSE, hv.err)
               ELSE IF SameKey
               THEN verified[1].result
                        = Ok((hv.val = h \/ sig.s = 0) /\ cv = sig.c)
               ELSE verified[1].result
                        = Ok(sig.c = 0 /\ (hv.val = h \/ sg.r_scalar = 0)
                                /\ cv = 0)

\* Another key under V2, whose transcript holds neither pk nor h: rejected.
C4_Witness ==
    /\ Verified /\ SameSignature /\ SameVersion /\ SameMessage /\ ~SameKey
    /\ verified[1].version = "V2"
    /\ HtcOf(verified[1]).ok
    /\ verified[1].c_scalar = signed[1].result.val.c
    /\ signed[1].result.val.c # 0
    /\ verified[1].result = Ok(FALSE)

\* The fields in which the verified signature differs from the signed one.
ChangedFields ==
    {f \in SignatureFields : verified[1].sig[f] # signed[1].result.val[f]}

TamperedCall ==
    /\ Verified /\ SameKey /\ SameMessage /\ SameVersion
    /\ Cardinality(ChangedFields) = 1

\* C5 as the specification states it, for an ordinary signing call: a
\* signature with one field changed is rejected with Ok(false).
C5_Original == (TamperedCall /\ Ordinary) => verified[1].result = Ok(FALSE)

\* C5 amended: a change of s, c, r_point or hashed_to_curve_r is always
\* rejected with Ok(false); a change of the nullifier is rejected unless the
\* signature's c is 0 and the challenge recomputed from the changed
\* transcript is 0 too, in which case the result is Ok(true).
C5_TamperSensitivity ==
    TamperedCall
        => verified[1].result
              = Ok(/\ ChangedFields = {"nullifier"}
                   /\ signed[1].result.val.c = 0
                   /\ verified[1].c_scalar = 0)

\* A changed nullifier under c = 0: only the challenge comparison rejects.
C5_Witness ==
    /\ TamperedCall
    /\ ChangedFields = {"nullifier"}
    /\ signed[1].result.val.c = 0
    /\ verified[1].result = Ok(FALSE)

\* C6: when hash_to_curve fails on (message, pk), sign and verify_non_zk
\* return that error: no signature, and neither Ok(true) nor Ok(false),
\* whatever the signature given to verify_non_zk.
C6_ErrorPropagation ==
    /\ \A i \in 1 .. Len(signed) :
          ~HtcOfSign(signed[i]).ok
              => signed[i].result = Err(NoSignature, HtcOfSign(signed[i]).err)
    /\ verified # <<>> =>
          (~HtcOf(verified[1]).ok
              => verified[1].result = Err(FALSE, HtcOf(verified[1]).err))

C6_Witness ==
    /\ Len(signed) = 1
    /\ signed[1].result = Err(NoSignature, "HashToCurveError(a)")
    /\ verified # <<>>
    /\ verified[1].sig.s # 0
    /\ verified[1].result = Err(FALSE, "HashToCurveError(a)")

\* C7: when hash_to_curve succeeds, verify_non_zk returns Ok(b), b being the
\* conjunction of the two group equations and the challenge comparison; no
\* failed check is an error.
C7_ThreeWayAnd ==
    (verified # <<>> /\ HtcOf(verified[1]).ok)
        => verified[1].result
              = Ok(/\ Equation1(verified[1])
                   /\ Equation2(verified[1])
                   /\ ChallengeMatches(verified[1]))

\* The first equation alone fails: rejected, not an error.
C7_Witness ==
    /\ verified # <<>> /\ HtcOf(verified[1]).ok
    /\ ~Equation1(verified[1])
    /\ Equation2(verified[1])
    /\ ChallengeMatches(verified[1])
    /\ verified[1].result = Ok(FALSE)

\* C9: transcript agreement. The c of a signature is the challenge of the
\* version's transcript over (g, pk, h, nul, g^r, z), in that order; the c'
\* of verify_non_zk is the challenge of the same transcript over the
\* signature's own nullifier, r_point and hashed_to_curve_r and the
\* recomputed h.
C9_TranscriptAgreement ==
    /\ \A i \in 1 .. Len(signed) :
          signed[i].result.ok =>
            LET sg == signed[i]
                h == HtcOfSign(sg).val
                tr == Transcript(sg.version, pp.g_point, sg.keypair[1], h,
                                 ModOrder(h * sg.keypair[2]),
                                 ModOrder(pp.g_point * sg.r_scalar),
                                 ModOrder(h * sg.r_scalar))
            IN  Hashed(tr) /\ sg.result.val.c = Challenge(tr)
    /\ (verified # <<>> /\ HtcOf(verified[1]).ok) =>
            LET call == verified[1]
                tr == Transcript(call.version, pp.g_point, call.pk,
                                 HtcOf(call).val, call.sig.nullifier,
                                 call.sig.r_point, call.sig.hashed_to_curve_r)
            IN  Hashed(tr) /\ call.c_scalar = Challenge(tr)

\* A V1 signature with its nullifier changed: c' follows the changed field.
C9_Witness ==
    /\ TamperedCall
    /\ verified[1].version = "V1"
    /\ ChangedFields = {"nullifier"}
    /\ verified[1].c_scalar # signed[1].result.val.c
    /\ signed[1].keypair[1] # pp.g_point

\* C10: sign_with_r signs under any pair (pk, sk); when pk # g*sk and the
\* signature's c is not 0, verify_non_zk under that pk rejects it with
\* Ok(false), the first group equation failing.
C10_MismatchedPair ==
    /\ \A i \in 1 .. Len(signed) :
          HtcOfSign(signed[i]).ok => signed[i].result.ok
    /\ (/\ verified # <<>>
        /\ HasSignature
        /\ ~ValidKeypair(signed[1].keypair)
        /\ signed[1].result.val.c # 0)
       => /\ verified[1].result = Ok(FALSE)
          /\ ~Equation1(verified[1])

\* A mismatched pair whose signature passes the second equation and the
\* challenge comparison.
C10_Witness ==
    /\ verified # <<>>
    /\ HasSignature
    /\ ~ValidKeypair(signed[1].keypair)
    /\ signed[1].result.val.c # 0
    /\ Equation2(verified[1])
    /\ ChallengeMatches(verified[1])
    /\ verified[1].result = Ok(FALSE)

====
